---------------------------- MODULE Spec2Model ----------------------------
(***************************************************************************)
(* Model of the DalalStreetAI batch jobs and the request layer that share  *)
(* the decisions / weekly_index_predictions / watchlist tables.            *)
(*                                                                         *)
(*   backend/agent_worker.py      run_proactive_analysis    Agent actions  *)
(*   backend/app.py               analyze_stock             Req actions    *)
(*   backend/updated_pnl.py       update_profit_loss        Pnl actions    *)
(*   backend/weekly_predictory.py generate_new_weekly_predictions  Gen     *)
(*                                                                         *)
(* The store is the committed content of the tables.  A connection's       *)
(* uncommitted writes are kept with the run that made them and reach the   *)
(* store at conn.commit(); conn.rollback() drops them.                     *)
(*                                                                         *)
(* Symbols and exchanges are sequences of one-character strings so that    *)
(* format_indian_symbol is computed, not assumed.  Prices are integers in  *)
(* thousandths of a rupee (3500.009 is 3500009); a percentage is the exact *)
(* fraction <<numerator, denominator>>.                                    *)
(***************************************************************************)
EXTENDS Integers, Sequences, FiniteSets, TLC

VARIABLES
    today,          \* the calendar day (CURRENT_DATE / date.today()), day 0 a Monday
    watchlist,      \* table watchlist: set of [user_id, symbol, exchange]
    decisions,      \* table decisions: sequence of rows, id = position
    agent_pc,       \* run_proactive_analysis: position of each run
    agent_todo,     \* ... the rows of unique_stocks not yet iterated
    agent_cur,      \* ... the stock of the current iteration
    req_pc,         \* analyze_stock: position of each request
    req_cur,        \* ... its formatted_symbol and exchange
    agent_log,      \* history of a run: what each iteration saw and was given
    agent_start,    \* history of a run: the day and the table when it began
    agent_ins,      \* history of a run: ids of the rows it inserted
    pnl_pc,         \* update_profit_loss: position of each run
    pnl_decisions,  \* ... the rows it selected (decisions)
    pnl_prices,     \* ... latest_prices_dict
    pnl_i,          \* ... the index of the row the loop is at
    pnl_updates,    \* ... its connection's uncommitted UPDATEs: id -> value
    pnl_aborted,    \* ... whether its transaction is in the failed state
    pnl_raised,     \* history of a run: ids of the rows whose own processing raised
    scored_at,      \* history of a row: the current price its profit_loss was computed from
    forecasts,      \* table weekly_index_predictions: sequence of rows, id = position
    gen_pc,         \* generate_new_weekly_predictions: position of each run
    gen_today,      \* ... today, read once at the start
    gen_i,          \* ... the index into INDICES_TO_PREDICT the loop is at
    gen_inserts,    \* ... its connection's uncommitted INSERTs
    gen_ok,         \* history of a run: the symbols whose INSERT went through
    eval_pc,        \* evaluate_last_week_predictions: position of each run
    eval_today,     \* ... today, read once at the start
    eval_preds,     \* ... the rows it selected (predictions_to_evaluate)
    eval_i,         \* ... the index of the row the loop is at
    eval_updates,   \* ... its connection's uncommitted UPDATEs: id -> values
    graded_with,    \* history of a row: the market data its outcome was computed from
    job_pc,         \* the weekly job's __main__: idle, evaluate or generate
    gen_log,        \* history of a run: what each iteration found and was given
    fmt_symbol,     \* format_indian_symbol: the symbol of the last call
    fmt_exchange,   \* ... the exchange of the last call
    fmt_out,        \* ... what the last call returned
    fmt_calls,      \* ... the number of calls made, each on the result of the one before
    raw_response,   \* generate_new_weekly_predictions: the oracle's raw text for a symbol
    parsed,         \* ... what the search and json.loads made of it
    wl_call         \* history of the watchlist endpoints: the last call and its arguments

storeVars == <<today, watchlist, decisions>>
dailyVars == <<agent_pc, agent_todo, agent_cur, req_pc, req_cur>>
histVars == <<agent_log, agent_start, agent_ins>>
pnlVars == <<pnl_pc, pnl_decisions, pnl_prices, pnl_i, pnl_updates, pnl_aborted,
             pnl_raised, scored_at>>

genVars == <<gen_pc, gen_today, gen_i, gen_inserts, gen_ok>>
evalVars == <<eval_pc, eval_today, eval_preds, eval_i, eval_updates, graded_with>>

jobVars == <<job_pc, gen_log>>

weeklyVars == <<forecasts, gen_pc, gen_today, gen_i, gen_inserts, gen_ok, evalVars, jobVars>>

textVars == <<fmt_symbol, fmt_exchange, fmt_out, fmt_calls, raw_response, parsed>>

pureVars == <<textVars, wl_call>>

vars == <<storeVars, dailyVars, histVars, pnlVars, weeklyVars, pureVars>>

-----------------------------------------------------------------------------
(* Bounds of the model. *)

NumAgents == 2
NumRequests == 1
NumPnlRuns == 2
MaxPnlRows == 2
NumGenRuns == 2
NumEvalRuns == 2
MaxWeeklyDay == 1
MaxJobDay == 20
MaxSeqDay == 8
MaxEvalRows == 2
MaxForecasts == 3
MaxDay == 1
MaxDecisions == 3
MaxWatchlist == 2
MaxSymbolLen == 3
MaxFormatCalls == 2
MaxResponseLen == 4

Agents == 1..NumAgents
Requests == 1..NumRequests
PnlRuns == 1..NumPnlRuns
GenRuns == 1..NumGenRuns
EvalRuns == 1..NumEvalRuns
Users == {1}

-----------------------------------------------------------------------------
(* Text. *)

NULL == <<>>

(* Before any call of a watchlist endpoint; before the parsing step. *)
NoCall == [op |-> "none", user_id |-> 0, symbol |-> <<>>, exchange |-> <<>>]
NotParsed == [status |-> "none", object |-> <<>>]

UpperChar(c) ==
    CASE c = "t" -> "T"
      [] c = "c" -> "C"
      [] c = "s" -> "S"
      [] c = "n" -> "N"
      [] c = "b" -> "B"
      [] c = "o" -> "O"
      [] c = "e" -> "E"
      [] OTHER -> c

Upper(s) == [i \in DOMAIN s |-> UpperChar(s[i])]

StartsWith(s, p) ==
    /\ Len(p) <= Len(s)
    /\ SubSeq(s, 1, Len(p)) = p

EndsWith(s, suffix) ==
    /\ Len(suffix) <= Len(s)
    /\ SubSeq(s, Len(s) - Len(suffix) + 1, Len(s)) = suffix

DOT_NS == <<".", "N", "S">>
DOT_BO == <<".", "B", "O">>
NSE == <<"N", "S", "E">>
BSE == <<"B", "S", "E">>

(* format_indian_symbol with every suffixing test removed. *)
format_always_suffixed(symbol, exchange) ==
    Upper(symbol) \o (IF Upper(exchange) = NSE THEN DOT_NS ELSE DOT_BO)

format_indian_symbol(symbol, exchange) ==
    IF StartsWith(symbol, <<"^">>) THEN symbol
    ELSE IF ~ (\E suffix \in {DOT_NS, DOT_BO} : EndsWith(Upper(symbol), suffix))
         THEN Upper(symbol) \o (IF Upper(exchange) = NSE THEN DOT_NS ELSE DOT_BO)
         ELSE Upper(symbol)

(* What users type. *)
RawSymbols == { <<"t", "c", "s">>, <<"T", "C", "S", ".", "N", "S">> }
Exchanges == { NSE, BSE }

(* Texts a caller can pass as a symbol: what users type, an index, a      *)
(* lower-case suffixed symbol, and every text of up to MaxSymbolLen of     *)
(* these characters.                                                       *)
FormatChars == { "^", ".", "n", "S", "t" }
FormatSymbols ==
    RawSymbols
    \cup { <<"^", "n", "s", "e", "i">>, <<"t", "c", "s", ".", "b", "o">> }
    \cup UNION { [1..n -> FormatChars] : n \in 0..MaxSymbolLen }
FormatExchanges == { NSE, BSE, <<"n", "s", "e">> }

(* A call of format_indian_symbol: the first on the symbol given, each     *)
(* later one on what the call before returned, with any exchange.          *)
FormatCall(exchange) ==
    /\ fmt_calls < MaxFormatCalls
    /\ LET symbol == IF fmt_calls = 0 THEN fmt_symbol ELSE fmt_out
       IN  /\ fmt_symbol' = symbol
           /\ fmt_out' = format_indian_symbol(symbol, exchange)
    /\ fmt_exchange' = exchange
    /\ fmt_calls' = fmt_calls + 1
    /\ UNCHANGED <<raw_response, parsed>>

(* The rows add_to_watchlist stores: the formatted symbol, the exchange as given. *)
WatchRows ==
    { [user_id |-> u, symbol |-> format_indian_symbol(s, e), exchange |-> e] :
        u \in Users, s \in RawSymbols, e \in Exchanges }

(* SELECT DISTINCT symbol, exchange FROM watchlist *)
unique_stocks(wl) == { [symbol |-> r.symbol, exchange |-> r.exchange] : r \in wl }

-----------------------------------------------------------------------------
(* run_full_analysis: what it can return.  Either {"error": ...} or the    *)
(* oracle's object, unvalidated, with price_at_decision added.  The        *)
(* oracle's objects here carry the keys of the prompt's output format.     *)

ClosePrices == { 3500000 }

AnalysisResults ==
    { [error |-> "Error in full analysis"] }
    \cup { [decision |-> "BUY", confidence |-> "High", price_at_decision |-> p] :
             p \in ClosePrices }

(* An object of the oracle whose decision and confidence are not among    *)
(* the values the prompt asks for.                                         *)
OffContractResults ==
    { [decision |-> "STRONG BUY", confidence |-> "Certain", price_at_decision |-> p] :
        p \in ClosePrices }

IsError(analysis_result) == "error" \in DOMAIN analysis_result

(* What the store does with an INSERT that reaches it.  The schema of the  *)
(* tables is not among the sources; it is described with id as the only   *)
(* key of decisions and of weekly_index_predictions and no uniqueness over *)
(* their other columns, so every row is taken.                             *)
Insert(table, row) == Append(table, row)

(* A row that would be created with a profit_loss already in it. *)
NewDecisionScored(symbol, exchange, analysis_result, day) ==
    [symbol |-> symbol, exchange |-> exchange, day |-> day,
     price_at_decision |-> analysis_result.price_at_decision,
     decision |-> analysis_result.decision,
     confidence |-> analysis_result.confidence,
     profit_loss |-> <<0, 1>>]

(* INSERT INTO decisions (symbol, exchange, price_at_decision, decision,   *)
(* confidence, ...) with the parameters {'symbol': symbol, 'exchange':     *)
(* exchange, **analysis_result}, where a key of analysis_result replaces   *)
(* the one before it: timestamp is the time of the insert, profit_loss is  *)
(* not given and so NULL.                                                  *)
NewDecision(symbol, exchange, analysis_result, day) ==
    [symbol |-> IF "symbol" \in DOMAIN analysis_result
                THEN analysis_result.symbol ELSE symbol,
     exchange |-> IF "exchange" \in DOMAIN analysis_result
                  THEN analysis_result.exchange ELSE exchange,
     day |-> day,
     price_at_decision |-> analysis_result.price_at_decision,
     decision |-> analysis_result.decision,
     confidence |-> analysis_result.confidence,
     profit_loss |-> NULL]

(* SELECT id FROM decisions WHERE symbol = %s AND DATE(timestamp) = CURRENT_DATE *)
HasDecisionOnWrongDay(table, symbol, day) ==
    \E i \in DOMAIN table : table[i].symbol = symbol /\ table[i].day < day

HasDecisionOn(table, symbol, day) ==
    \E i \in DOMAIN table : table[i].symbol = symbol /\ table[i].day = day

-----------------------------------------------------------------------------
(* run_proactive_analysis *)

AgentStart(w) ==
    /\ agent_pc[w] \in {"idle", "done"}
    /\ agent_pc' = [agent_pc EXCEPT ![w] = "loop"]
    /\ agent_todo' = [agent_todo EXCEPT ![w] = unique_stocks(watchlist)]
    /\ UNCHANGED <<storeVars, agent_cur, req_pc, req_cur>>

(* The check without its "continue": the analysis starts either way. *)
AgentCheckNoSkip(w, stock) ==
    /\ agent_pc[w] = "loop"
    /\ stock \in agent_todo[w]
    /\ agent_todo' = [agent_todo EXCEPT ![w] = @ \ {stock}]
    /\ agent_pc' = [agent_pc EXCEPT ![w] = "analyze"]
    /\ agent_cur' = [agent_cur EXCEPT ![w] = stock]
    /\ UNCHANGED <<storeVars, req_pc, req_cur>>

(* One iteration up to the check: the same-day row is found (continue) or  *)
(* the analysis is started.                                                *)
AgentCheck(w, stock) ==
    /\ agent_pc[w] = "loop"
    /\ stock \in agent_todo[w]
    /\ agent_todo' = [agent_todo EXCEPT ![w] = @ \ {stock}]
    /\ IF HasDecisionOn(decisions, stock.symbol, today)
       THEN UNCHANGED <<agent_pc, agent_cur>>
       ELSE /\ agent_pc' = [agent_pc EXCEPT ![w] = "analyze"]
            /\ agent_cur' = [agent_cur EXCEPT ![w] = stock]
    /\ UNCHANGED <<storeVars, req_pc, req_cur>>

(* The rest of the iteration, were the INSERT not wrapped in try/except:   *)
(* the exception ends the run with stocks left over.                       *)
AgentInsertAborting(w, analysis_result, insert_fails) ==
    /\ agent_pc[w] = "analyze"
    /\ IsError(analysis_result) \/ insert_fails \/ Len(decisions) < MaxDecisions
    /\ IF IsError(analysis_result)
       THEN /\ agent_pc' = [agent_pc EXCEPT ![w] = "loop"]
            /\ UNCHANGED decisions
       ELSE IF insert_fails
       THEN /\ agent_pc' = [agent_pc EXCEPT ![w] = "done"]
            /\ UNCHANGED decisions
       ELSE /\ decisions' = Insert(decisions,
                   NewDecision(agent_cur[w].symbol, agent_cur[w].exchange,
                               analysis_result, today))
            /\ agent_pc' = [agent_pc EXCEPT ![w] = "loop"]
    /\ UNCHANGED <<today, watchlist, agent_todo, agent_cur, req_pc, req_cur>>

(* The rest of the iteration, were the commit not made after each INSERT:  *)
(* the rollback of a failure takes the row inserted before it as well.     *)
AgentInsertRollbackEarlier(w, analysis_result, insert_fails) ==
    /\ agent_pc[w] = "analyze"
    /\ IsError(analysis_result) \/ insert_fails \/ Len(decisions) < MaxDecisions
    /\ agent_pc' = [agent_pc EXCEPT ![w] = "loop"]
    /\ IF IsError(analysis_result)
       THEN UNCHANGED decisions
       ELSE IF insert_fails
       THEN decisions' = SubSeq(decisions, 1, Len(decisions) - 1)
       ELSE decisions' = Insert(decisions,
                NewDecision(agent_cur[w].symbol, agent_cur[w].exchange,
                            analysis_result, today))
    /\ UNCHANGED <<today, watchlist, agent_todo, agent_cur, req_pc, req_cur>>

(* The rest of the iteration: run_full_analysis returns analysis_result;   *)
(* on "error" continue; otherwise INSERT and commit, or, when the INSERT   *)
(* raises (insert_fails), print, rollback and go on with the next stock.   *)
AgentInsert(w, analysis_result, insert_fails) ==
    /\ agent_pc[w] = "analyze"
    /\ IsError(analysis_result) \/ insert_fails \/ Len(decisions) < MaxDecisions
    /\ agent_pc' = [agent_pc EXCEPT ![w] = "loop"]
    /\ IF IsError(analysis_result) \/ insert_fails
       THEN UNCHANGED decisions
       ELSE decisions' = Insert(decisions,
                NewDecision(agent_cur[w].symbol, agent_cur[w].exchange,
                            analysis_result, today))
    /\ UNCHANGED <<today, watchlist, agent_todo, agent_cur, req_pc, req_cur>>

(* The loop is over: cur.close(), conn.close(). *)
AgentFinish(w) ==
    /\ agent_pc[w] = "loop"
    /\ agent_todo[w] = {}
    /\ agent_pc' = [agent_pc EXCEPT ![w] = "done"]
    /\ UNCHANGED <<storeVars, agent_todo, agent_cur, req_pc, req_cur>>

-----------------------------------------------------------------------------
(* analyze_stock *)

(* Up to the check: the cached row is returned, or the analysis starts. *)
ReqCheck(q, symbol, exchange) ==
    /\ req_pc[q] = "idle"
    /\ LET formatted_symbol == format_indian_symbol(symbol, exchange)
       IN  IF HasDecisionOn(decisions, formatted_symbol, today)
           THEN UNCHANGED <<req_pc, req_cur>>
           ELSE /\ req_pc' = [req_pc EXCEPT ![q] = "analyze"]
                /\ req_cur' = [req_cur EXCEPT ![q] =
                       [symbol |-> formatted_symbol, exchange |-> exchange]]
    /\ UNCHANGED <<storeVars, agent_pc, agent_todo, agent_cur>>

(* run_full_analysis returns; on "error" the request ends, otherwise       *)
(* INSERT ... RETURNING * and commit.  An INSERT that raises ends the      *)
(* request with nothing stored.                                            *)
ReqInsert(q, analysis_result, insert_fails) ==
    /\ req_pc[q] = "analyze"
    /\ IsError(analysis_result) \/ insert_fails \/ Len(decisions) < MaxDecisions
    /\ req_pc' = [req_pc EXCEPT ![q] = "idle"]
    /\ IF IsError(analysis_result) \/ insert_fails
       THEN UNCHANGED decisions
       ELSE decisions' = Insert(decisions,
                NewDecision(req_cur[q].symbol, req_cur[q].exchange,
                            analysis_result, today))
    /\ UNCHANGED <<today, watchlist, agent_pc, agent_todo, agent_cur, req_cur>>

(* add_to_watchlist: INSERT INTO watchlist (user_id, symbol, exchange)     *)
(* VALUES (user_id, formatted, exchange) ON CONFLICT DO NOTHING, commit.   *)
add_to_watchlist(user_id, symbol, exchange) ==
    /\ LET formatted == format_indian_symbol(symbol, exchange)
           row == [user_id |-> user_id, symbol |-> formatted, exchange |-> exchange]
       IN  /\ Cardinality(watchlist \cup {row}) <= MaxWatchlist
           /\ watchlist' = watchlist \cup {row}
    /\ UNCHANGED <<today, decisions, dailyVars>>

(* remove_from_watchlist: DELETE FROM watchlist WHERE user_id = %s AND     *)
(* symbol = %s AND exchange = %s, with the symbol as the caller gave it.   *)
remove_from_watchlist(user_id, symbol, exchange) ==
    /\ watchlist' = { r \in watchlist :
                        ~ (r.user_id = user_id /\ r.symbol = symbol /\ r.exchange = exchange) }
    /\ UNCHANGED <<today, decisions, dailyVars>>

(* History of the watchlist endpoints: the call just made. *)
HistCall(op, user_id, symbol, exchange) ==
    wl_call' = [op |-> op, user_id |-> user_id, symbol |-> symbol, exchange |-> exchange]

(* Midnight. *)
NextDay ==
    /\ today < MaxDay
    /\ today' = today + 1
    /\ UNCHANGED <<watchlist, decisions, dailyVars>>

-----------------------------------------------------------------------------
(* History of a run of run_proactive_analysis, kept beside the actions.    *)

(* An entry: the stock of an iteration, whether the check found a same-day *)
(* row, whether the analysis returned an error, whether the INSERT raised, *)
(* and whether an earlier iteration of the same run had failed.            *)
Failed(entry) == entry.error \/ entry.insert_fails

LogEntry(w, stock, found, error, insert_fails) ==
    [stock |-> stock, found |-> found, error |-> error, insert_fails |-> insert_fails,
     after_failure |-> \E e \in agent_log[w] : Failed(e)]

HistStart(w) ==
    /\ agent_log' = [agent_log EXCEPT ![w] = {}]
    /\ agent_start' = [agent_start EXCEPT ![w] = [day |-> today, table |-> decisions]]
    /\ agent_ins' = [agent_ins EXCEPT ![w] = {}]

HistCheck(w, stock) ==
    /\ agent_log' = [agent_log EXCEPT ![w] =
           IF agent_pc'[w] = "analyze" THEN @
           ELSE @ \cup {LogEntry(w, stock, TRUE, FALSE, FALSE)}]
    /\ UNCHANGED <<agent_start, agent_ins>>

HistInsert(w, analysis_result, insert_fails) ==
    /\ agent_log' = [agent_log EXCEPT ![w] =
           @ \cup {LogEntry(w, agent_cur[w], FALSE, IsError(analysis_result),
                            ~ IsError(analysis_result) /\ insert_fails)}]
    /\ agent_ins' = [agent_ins EXCEPT ![w] =
           IF Len(decisions') > Len(decisions) THEN @ \cup {Len(decisions')} ELSE @]
    /\ UNCHANGED agent_start

-----------------------------------------------------------------------------
(* update_profit_loss *)

NoPrice == -1
Tolerance == 10

Abs(x) == IF x < 0 THEN 0 - x ELSE x

(* SELECT id, symbol, decision, price_at_decision FROM decisions           *)
(* WHERE profit_loss IS NULL AND decision IN ('BUY', 'SELL')               *)
RECURSIVE SelectAnyDecision(_, _)
SelectAnyDecision(table, from) ==
    IF from > Len(table) THEN <<>>
    ELSE IF table[from].profit_loss = NULL
         THEN <<[id |-> from, symbol |-> table[from].symbol,
                 decision |-> table[from].decision,
                 price_at_decision |-> table[from].price_at_decision]>>
              \o SelectAnyDecision(table, from + 1)
         ELSE SelectAnyDecision(table, from + 1)

RECURSIVE SelectEligible(_, _)
SelectEligible(table, from) ==
    IF from > Len(table) THEN <<>>
    ELSE IF table[from].profit_loss = NULL /\ table[from].decision \in {"BUY", "SELL"}
         THEN <<[id |-> from, symbol |-> table[from].symbol,
                 decision |-> table[from].decision,
                 price_at_decision |-> table[from].price_at_decision]>>
              \o SelectEligible(table, from + 1)
         ELSE SelectEligible(table, from + 1)

(* symbols = list(set([d['symbol'] for d in decisions])) *)
SymbolsOf(rows) == { rows[k].symbol : k \in DOMAIN rows }

(* latest_prices_dict.get(dec['symbol']) *)
CurrentPrice(prices, symbol) ==
    IF symbol \in DOMAIN prices THEN prices[symbol] ELSE NoPrice

(* pnl_percent, the fraction <<numerator, denominator>>: the raw change,   *)
(* times -1 for a SELL.                                                    *)
PnlPercentUnsigned(current_price, decision_price, decision) ==
    <<(current_price - decision_price) * 100, decision_price>>

PnlPercent(current_price, decision_price, decision) ==
    LET raw == <<(current_price - decision_price) * 100, decision_price>>
    IN  IF decision = "SELL" THEN <<raw[1] * (-1), raw[2]>> ELSE raw

(* The holiday guard: abs(current_price - decision_price) < 0.01 *)
UnchangedInclusive(current_price, decision_price) ==
    Abs(current_price - decision_price) <= Tolerance

Unchanged(current_price, decision_price) ==
    Abs(current_price - decision_price) < Tolerance

(* The body of the loop without its test of current_price. *)
RowStepNoPriceTest(dec, prices) ==
    LET current_price == CurrentPrice(prices, dec.symbol)
        decision_price == dec.price_at_decision
    IN  IF decision_price = NoPrice THEN "no_decision_price"
        ELSE IF Unchanged(current_price, decision_price) THEN "unchanged"
        ELSE IF decision_price = 0 THEN "zero_division"
        ELSE "update"

(* The body of the loop for one row, up to the UPDATE: what becomes of it. *)
RowStep(dec, prices) ==
    LET current_price == CurrentPrice(prices, dec.symbol)
        decision_price == dec.price_at_decision
    IN  IF current_price = NoPrice THEN "no_price"
        ELSE IF decision_price = NoPrice THEN "no_decision_price"
        ELSE IF Unchanged(current_price, decision_price) THEN "unchanged"
        ELSE IF decision_price = 0 THEN "zero_division"
        ELSE "update"

(* What the price fetch can give for a symbol. *)
CurrentPrices == { NoPrice, 3500009, 3500010, 3605000 }

(* What the batched fetch leaves in latest_prices_dict: for each symbol of *)
(* the selected rows a close, or NoPrice for a missing or NaN one; NoData  *)
(* when data is empty.                                                     *)
NoData == <<>>
Fetched(rows) == [SymbolsOf(rows) -> CurrentPrices] \cup {NoData}

(* The select and the batched price fetch.  No decisions: return.  data is *)
(* empty: return.  Otherwise the loop starts.                              *)
PnlSelect(p, prices) ==
    /\ pnl_pc[p] \in {"idle", "done"}
    /\ LET rows == SelectEligible(decisions, 1)
       IN  /\ prices \in Fetched(rows)
           /\ pnl_decisions' = [pnl_decisions EXCEPT ![p] = rows]
           /\ pnl_prices' = [pnl_prices EXCEPT ![p] = prices]
           /\ pnl_pc' = [pnl_pc EXCEPT ![p] =
                  IF rows = <<>> \/ prices = NoData THEN "done" ELSE "loop"]
    /\ pnl_i' = [pnl_i EXCEPT ![p] = 1]
    /\ pnl_updates' = [pnl_updates EXCEPT ![p] = <<>>]
    /\ pnl_aborted' = [pnl_aborted EXCEPT ![p] = FALSE]
    /\ pnl_raised' = [pnl_raised EXCEPT ![p] = {}]
    /\ UNCHANGED <<storeVars, scored_at>>

(* One iteration of the loop.  A row without a price, or with an unchanged *)
(* price, is skipped.  A zero decision price raises in the division.  The  *)
(* UPDATE raises when the server rejects it (update_fails) or when an      *)
(* earlier statement of this transaction has failed: the server then       *)
(* rejects every statement until the transaction ends.  Whatever is raised *)
(* is caught and printed, and the loop goes on.                            *)
PnlRow(p, update_fails) ==
    /\ pnl_pc[p] = "loop"
    /\ pnl_i[p] <= Len(pnl_decisions[p])
    /\ LET dec == pnl_decisions[p][pnl_i[p]]
           step == RowStep(dec, pnl_prices[p])
           current_price == CurrentPrice(pnl_prices[p], dec.symbol)
           rejected == pnl_aborted[p] \/ update_fails
       IN  /\ update_fails => (step = "update" /\ ~ pnl_aborted[p])
           /\ pnl_updates' = [pnl_updates EXCEPT ![p] =
                  IF step = "update" /\ ~ rejected
                  THEN [id \in DOMAIN @ \cup {dec.id} |->
                          IF id = dec.id
                          THEN [profit_loss |-> PnlPercent(current_price,
                                                   dec.price_at_decision, dec.decision),
                                current_price |-> current_price]
                          ELSE @[id]]
                  ELSE @]
           /\ pnl_aborted' = [pnl_aborted EXCEPT ![p] = @ \/ (step = "update" /\ rejected)]
           /\ pnl_raised' = [pnl_raised EXCEPT ![p] =
                  IF step = "zero_division" \/ (step = "update" /\ update_fails)
                  THEN @ \cup {dec.id} ELSE @]
    /\ pnl_i' = [pnl_i EXCEPT ![p] = @ + 1]
    /\ UNCHANGED <<storeVars, pnl_pc, pnl_decisions, pnl_prices, scored_at>>

(* conn.commit() after the loop: the UPDATEs of the transaction reach the  *)
(* table, each as UPDATE decisions SET profit_loss = %s WHERE id = %s; a   *)
(* transaction in the failed state is rolled back by the server instead.   *)
PnlCommit(p) ==
    /\ pnl_pc[p] = "loop"
    /\ pnl_i[p] > Len(pnl_decisions[p])
    /\ pnl_pc' = [pnl_pc EXCEPT ![p] = "done"]
    /\ LET written == IF pnl_aborted[p] THEN {} ELSE DOMAIN pnl_updates[p]
       IN  /\ decisions' = [id \in DOMAIN decisions |->
                  IF id \in written
                  THEN [decisions[id] EXCEPT !.profit_loss = pnl_updates[p][id].profit_loss]
                  ELSE decisions[id]]
           /\ scored_at' = [id \in DOMAIN scored_at |->
                  IF id \in written THEN pnl_updates[p][id].current_price
                  ELSE scored_at[id]]
    /\ pnl_updates' = [pnl_updates EXCEPT ![p] = <<>>]
    /\ UNCHANGED <<today, watchlist, pnl_decisions, pnl_prices, pnl_i, pnl_aborted,
                   pnl_raised>>

-----------------------------------------------------------------------------
(* generate_new_weekly_predictions *)

INDICES_TO_PREDICT == << <<"^", "N", "S", "E", "I">>, <<"^", "B", "S", "E", "S", "N">> >>

(* date.weekday(): Monday is 0; day 0 of the model is a Monday. *)
weekday(day) == day % 7

(* week_start = today + timedelta(days=(7 - today.weekday()) % 7) *)
week_start_of(day) == day + ((7 - weekday(day)) % 7)
(* week_end = week_start + timedelta(days=4) *)
week_end_of(day) == week_start_of(day) + 4

(* What the forecasting chain and the JSON extraction give for one symbol: *)
(* the parsed object, or Raises when anything in the try block raises (no  *)
(* history, the model call, no JSON in the text, a missing key, the        *)
(* INSERT).                                                                *)
Raises == [raises |-> TRUE]
(* The objects here: one of the prompt's format, one of that format with   *)
(* a price of 0, and one with a single entry.                              *)
DayNames == <<"Monday", "Tuesday", "Wednesday", "Thursday", "Friday">>

ForecastResponses ==
    { [weekly_reasoning |-> "steady",
       daily_predictions |-> [i \in 1..5 |-> [day |-> DayNames[i], predicted_price |-> 100]]],
      [weekly_reasoning |-> "steady",
       daily_predictions |-> [i \in 1..5 |-> [day |-> DayNames[i],
                                              predicted_price |-> IF i = 2 THEN 0 ELSE 100]]],
      [weekly_reasoning |-> "steady",
       daily_predictions |-> << [day |-> "Friday", predicted_price |-> 100] >>] }

(* The oracle's raw text, character by character: "p" a character of      *)
(* prose, "{" and "}" the braces, "k" a piece of well-formed JSON content. *)
ResponseChars == { "p", "{", "}", "k" }
RawResponses == UNION { [1..n -> ResponseChars] : n \in 0..MaxResponseLen }

NoMatch == <<>>

(* re.search(r'\{.*\}', raw_response, re.DOTALL).group(): the search finds *)
(* the leftmost match, which begins at the first "{", and .* is greedy, so *)
(* the match ends at the last "}" of the text.  No "}" after the first "{" *)
(* is no match.                                                            *)
re_search(text) ==
    LET opens == { i \in DOMAIN text : text[i] = "{" }
        closes == { i \in DOMAIN text : text[i] = "}" }
    IN  IF opens = {} THEN NoMatch
        ELSE LET first == CHOOSE i \in opens : \A j \in opens : i <= j
             IN  IF \A j \in closes : j < first THEN NoMatch
                 ELSE LET last == CHOOSE i \in closes : \A j \in closes : j <= i
                      IN  SubSeq(text, first, last)

(* The braces open after the first i characters. *)
Depth(text, i) ==
    Cardinality({ j \in 1..i : text[j] = "{" }) - Cardinality({ j \in 1..i : text[j] = "}" })

(* Whether json.loads takes the text: one object, its first brace closed   *)
(* by its last character and not before, with no prose in it.              *)
IsJSONObject(text) ==
    /\ text # <<>>
    /\ text[1] = "{"
    /\ Depth(text, Len(text)) = 0
    /\ \A i \in 1..(Len(text) - 1) : Depth(text, i) > 0
    /\ \A i \in DOMAIN text : text[i] # "p"

(* json_match and response of one iteration: ValueError without a match,   *)
(* json.loads raising on a match that is not one JSON object.              *)
ParseResponse(text) ==
    LET json_match == re_search(text)
    IN  IF json_match = NoMatch THEN [status |-> "raises", object |-> <<>>]
        ELSE IF IsJSONObject(json_match) THEN [status |-> "loaded", object |-> json_match]
        ELSE [status |-> "raises", object |-> <<>>]

(* The step of an iteration from raw_response to response. *)
GenParse ==
    /\ parsed = NotParsed
    /\ parsed' = ParseResponse(raw_response)
    /\ UNCHANGED <<fmt_symbol, fmt_exchange, fmt_out, fmt_calls, raw_response>>

(* INSERT INTO weekly_index_predictions (symbol, prediction_date,          *)
(* week_start_date, week_end_date, daily_predictions_json,                 *)
(* weekly_reasoning): the two outcome columns are not given and so NULL.   *)
NewForecast(symbol, day, response) ==
    [symbol |-> symbol, prediction_date |-> day,
     week_start_date |-> week_start_of(day), week_end_date |-> week_end_of(day),
     daily_predictions |-> response.daily_predictions,
     weekly_reasoning |-> response.weekly_reasoning,
     actual_closing_price |-> NULL, performance_summary |-> NULL]

(* SELECT id FROM weekly_index_predictions WHERE symbol = %s AND           *)
(* week_start_date = %s, as the run's connection sees the table: the       *)
(* committed rows and its own uncommitted ones.                            *)
HasForecast(rows, symbol, week_start) ==
    \E k \in DOMAIN rows : rows[k].symbol = symbol /\ rows[k].week_start_date = week_start

GenStart(g) ==
    /\ gen_pc[g] \in {"idle", "done"}
    /\ gen_pc' = [gen_pc EXCEPT ![g] = "loop"]
    /\ gen_today' = [gen_today EXCEPT ![g] = today]
    /\ gen_i' = [gen_i EXCEPT ![g] = 1]
    /\ gen_inserts' = [gen_inserts EXCEPT ![g] = <<>>]
    /\ gen_ok' = [gen_ok EXCEPT ![g] = {}]
    /\ UNCHANGED <<storeVars, forecasts, evalVars>>

(* One iteration that does not look for the symbol's row of the week. *)
GenSymbolNoSkip(g, response) ==
    /\ gen_pc[g] = "loop"
    /\ gen_i[g] <= Len(INDICES_TO_PREDICT)
    /\ IF response = Raises
       THEN /\ gen_inserts' = [gen_inserts EXCEPT ![g] = <<>>]
            /\ UNCHANGED gen_ok
       ELSE /\ Len(forecasts) + Len(gen_inserts[g]) < MaxForecasts
            /\ gen_inserts' = [gen_inserts EXCEPT ![g] =
                   Insert(@, NewForecast(INDICES_TO_PREDICT[gen_i[g]], gen_today[g],
                                         response))]
            /\ gen_ok' = [gen_ok EXCEPT ![g] = @ \cup {INDICES_TO_PREDICT[gen_i[g]]}]
    /\ gen_i' = [gen_i EXCEPT ![g] = @ + 1]
    /\ UNCHANGED <<storeVars, forecasts, gen_pc, gen_today, evalVars>>

(* One iteration of the loop over INDICES_TO_PREDICT.  A row for the       *)
(* symbol and week_start exists: continue.  Anything raises: print and     *)
(* conn.rollback(), which drops every uncommitted INSERT of the run's      *)
(* connection.  Otherwise the INSERT joins the open transaction.           *)
GenSymbol(g, response) ==
    /\ gen_pc[g] = "loop"
    /\ gen_i[g] <= Len(INDICES_TO_PREDICT)
    /\ LET symbol == INDICES_TO_PREDICT[gen_i[g]]
           week_start == week_start_of(gen_today[g])
       IN  IF response # Raises /\ HasForecast(forecasts \o gen_inserts[g], symbol, week_start)
           THEN UNCHANGED <<gen_inserts, gen_ok>>
           ELSE IF response = Raises
           THEN /\ gen_inserts' = [gen_inserts EXCEPT ![g] = <<>>]
                /\ UNCHANGED gen_ok
           ELSE /\ Len(forecasts) + Len(gen_inserts[g]) < MaxForecasts
                /\ gen_inserts' = [gen_inserts EXCEPT ![g] =
                       Insert(@, NewForecast(symbol, gen_today[g], response))]
                /\ gen_ok' = [gen_ok EXCEPT ![g] = @ \cup {symbol}]
    /\ gen_i' = [gen_i EXCEPT ![g] = @ + 1]
    /\ UNCHANGED <<storeVars, forecasts, gen_pc, gen_today, evalVars>>

(* conn.commit() after the loop. *)
GenCommit(g) ==
    /\ gen_pc[g] = "loop"
    /\ gen_i[g] > Len(INDICES_TO_PREDICT)
    /\ gen_pc' = [gen_pc EXCEPT ![g] = "done"]
    /\ forecasts' = forecasts \o gen_inserts[g]
    /\ gen_inserts' = [gen_inserts EXCEPT ![g] = <<>>]
    /\ UNCHANGED <<storeVars, gen_today, gen_i, gen_ok, evalVars>>

(* Midnight, in the weeks of the weekly job. *)
WeeklyNextDay ==
    /\ today < MaxWeeklyDay
    /\ today' = today + 1
    /\ UNCHANGED <<watchlist, decisions, weeklyVars>>

-----------------------------------------------------------------------------
(* evaluate_last_week_predictions *)

(* last_week_start taken a week too far back. *)
last_week_start_two_back(day) == day - (weekday(day) + 14)

(* last_week_start = today - timedelta(days=today.weekday() + 7) *)
last_week_start_of(day) == day - (weekday(day) + 7)

(* Python's float arithmetic on the percentages, kept exact: a number is   *)
(* the fraction <<numerator, denominator>> in lowest terms, denominator    *)
(* positive.                                                               *)
RECURSIVE GCD(_, _)
GCD(a, b) == IF b = 0 THEN a ELSE GCD(b, a % b)

Frac(n, d) ==
    LET g == GCD(Abs(n), d)
    IN  IF n = 0 THEN <<0, 1>> ELSE <<n \div g, d \div g>>

FracAdd(x, y) == Frac(x[1] * y[2] + y[1] * x[2], x[2] * y[2])

(* The format {:.2f}: the number in hundredths, rounded to the nearest.    *)
Round2(x) == (200 * x[1] + x[2]) \div (2 * x[2])

(* yf.download(symbol, start=week_start_date, end=week_end_date + 1 day):  *)
(* one row per trading day of the week, in date order.  The weeks the      *)
(* model draws from: no data, a full week, a week with Tuesday a holiday.  *)
TradingWeeks == { <<>>, <<0, 1, 2, 3, 4>>, <<0, 2, 3, 4>> }
ActualCloses == { 110 }

ActualHist(week_start, offsets, close) ==
    [k \in DOMAIN offsets |-> [date |-> week_start + offsets[k], Close |-> close]]

Histories(week_start) ==
    { ActualHist(week_start, offsets, close) :
        offsets \in TradingWeeks, close \in ActualCloses }

(* day_date in actual_hist.index *)
InIndex(actual_hist, day_date) ==
    \E k \in DOMAIN actual_hist : actual_hist[k].date = day_date

(* actual_hist.loc[day_date]['Close'] *)
CloseOn(actual_hist, day_date) ==
    LET k == CHOOSE k \in DOMAIN actual_hist : actual_hist[k].date = day_date
    IN  actual_hist[k].Close

(* diff_percent = ((actual_price - predicted_price) / predicted_price)     *)
(* * 100 if predicted_price > 0 else 0                                     *)
DiffPercent(actual_price, predicted_price) ==
    IF predicted_price > 0
    THEN Frac((actual_price - predicted_price) * 100, predicted_price)
    ELSE <<0, 1>>

(* The loop over enumerate(predicted_days), from entry i on: the lines     *)
(* appended to performance_lines and the sum total_diff_percent.           *)
RECURSIVE DayLoop(_, _, _, _)
DayLoop(predicted_days, week_start, actual_hist, i) ==
    IF i > Len(predicted_days) THEN [lines |-> <<>>, total |-> <<0, 1>>]
    ELSE LET rest == DayLoop(predicted_days, week_start, actual_hist, i + 1)
             day_date == week_start + (i - 1)
             daily_pred == predicted_days[i]
         IN  IF InIndex(actual_hist, day_date)
             THEN LET diff_percent == DiffPercent(CloseOn(actual_hist, day_date),
                                                  daily_pred.predicted_price)
                  IN  [lines |-> <<[day |-> daily_pred.day,
                                    off_by |-> Round2(diff_percent)]>> \o rest.lines,
                       total |-> FracAdd(diff_percent, rest.total)]
             ELSE rest

(* avg_diff = total_diff_percent / len(predicted_days) *)
AvgDiff(total_diff_percent, predicted_days) ==
    Frac(total_diff_percent[1], total_diff_percent[2] * Len(predicted_days))

(* summary = f"Avg Daily Error: {avg_diff:.2f}%. " + " ".join(lines) *)
Summary(predicted_days, week_start, actual_hist) ==
    LET loop == DayLoop(predicted_days, week_start, actual_hist, 1)
    IN  [avg_daily_error |-> Round2(AvgDiff(loop.total, predicted_days)),
         lines |-> loop.lines]

(* What one iteration over predictions_to_evaluate does with a row. *)
EvalStep(pred, actual_hist) ==
    IF pred.daily_predictions = <<>> THEN "no_predictions"
    ELSE IF actual_hist = <<>> THEN "raises"
    ELSE "update"

(* SELECT * FROM weekly_index_predictions WHERE week_start_date = %s AND   *)
(* actual_closing_price IS NULL                                            *)
RECURSIVE SelectToEvaluate(_, _, _)
SelectToEvaluate(table, week_start, from) ==
    IF from > Len(table) THEN <<>>
    ELSE IF table[from].week_start_date = week_start
              /\ table[from].actual_closing_price = NULL
         THEN <<[id |-> from, row |-> table[from]]>>
              \o SelectToEvaluate(table, week_start, from + 1)
         ELSE SelectToEvaluate(table, week_start, from + 1)

(* The start of a run: today, last_week_start and the SELECT; with nothing *)
(* selected the run returns.                                               *)
EvalStart(e) ==
    /\ eval_pc[e] \in {"idle", "done"}
    /\ LET selected == SelectToEvaluate(forecasts, last_week_start_of(today), 1)
       IN  /\ eval_preds' = [eval_preds EXCEPT ![e] = selected]
           /\ eval_pc' = [eval_pc EXCEPT ![e] = IF selected = <<>> THEN "done" ELSE "loop"]
    /\ eval_today' = [eval_today EXCEPT ![e] = today]
    /\ eval_i' = [eval_i EXCEPT ![e] = 1]
    /\ eval_updates' = [eval_updates EXCEPT ![e] = <<>>]
    /\ UNCHANGED <<storeVars, forecasts, genVars, graded_with>>

(* One iteration of the loop over predictions_to_evaluate.  A row with no  *)
(* daily predictions is skipped; with no market data for the week,         *)
(* actual_hist['Close'].iloc[-1] raises, which is caught and printed;      *)
(* otherwise the UPDATE joins the open transaction.                        *)
EvalRow(e, actual_hist) ==
    /\ eval_pc[e] = "loop"
    /\ eval_i[e] <= Len(eval_preds[e])
    /\ LET pred == eval_preds[e][eval_i[e]]
       IN  /\ actual_hist \in Histories(pred.row.week_start_date)
           /\ eval_updates' = [eval_updates EXCEPT ![e] =
                  IF EvalStep(pred.row, actual_hist) = "update"
                  THEN [id \in DOMAIN @ \cup {pred.id} |->
                          IF id = pred.id
                          THEN [actual_closing_price |->
                                    <<actual_hist[Len(actual_hist)].Close>>,
                                performance_summary |->
                                    <<Summary(pred.row.daily_predictions,
                                              pred.row.week_start_date, actual_hist)>>,
                                actual_hist |-> actual_hist]
                          ELSE @[id]]
                  ELSE @]
    /\ eval_i' = [eval_i EXCEPT ![e] = @ + 1]
    /\ UNCHANGED <<storeVars, forecasts, genVars, eval_pc, eval_today, eval_preds, graded_with>>

(* The commit, were the UPDATE to set actual_closing_price alone. *)
EvalCommitPriceOnly(e) ==
    /\ eval_pc[e] = "loop"
    /\ eval_i[e] > Len(eval_preds[e])
    /\ eval_pc' = [eval_pc EXCEPT ![e] = "done"]
    /\ forecasts' = [id \in DOMAIN forecasts |->
           IF id \in DOMAIN eval_updates[e]
           THEN [forecasts[id] EXCEPT
                    !.actual_closing_price = eval_updates[e][id].actual_closing_price]
           ELSE forecasts[id]]
    /\ graded_with' = [id \in DOMAIN forecasts |->
           IF id \in DOMAIN eval_updates[e] THEN eval_updates[e][id].actual_hist
           ELSE IF id \in DOMAIN graded_with THEN graded_with[id] ELSE <<>>]
    /\ eval_updates' = [eval_updates EXCEPT ![e] = <<>>]
    /\ UNCHANGED <<storeVars, genVars, eval_today, eval_preds, eval_i>>

(* conn.commit() after the loop: the UPDATEs reach the table, each as      *)
(* UPDATE weekly_index_predictions SET actual_closing_price = %s,          *)
(* performance_summary = %s WHERE id = %s.                                 *)
EvalCommit(e) ==
    /\ eval_pc[e] = "loop"
    /\ eval_i[e] > Len(eval_preds[e])
    /\ eval_pc' = [eval_pc EXCEPT ![e] = "done"]
    /\ forecasts' = [id \in DOMAIN forecasts |->
           IF id \in DOMAIN eval_updates[e]
           THEN [forecasts[id] EXCEPT
                    !.actual_closing_price = eval_updates[e][id].actual_closing_price,
                    !.performance_summary = eval_updates[e][id].performance_summary]
           ELSE forecasts[id]]
    /\ graded_with' = [id \in DOMAIN forecasts |->
           IF id \in DOMAIN eval_updates[e] THEN eval_updates[e][id].actual_hist
           ELSE IF id \in DOMAIN graded_with THEN graded_with[id] ELSE <<>>]
    /\ eval_updates' = [eval_updates EXCEPT ![e] = <<>>]
    /\ UNCHANGED <<storeVars, genVars, eval_today, eval_preds, eval_i>>

-----------------------------------------------------------------------------
(* The weekly job: evaluate_last_week_predictions(), then                  *)
(* generate_new_weekly_predictions().                                      *)

JobEvaluate ==
    /\ job_pc = "idle"
    /\ job_pc' = "evaluate"
    /\ EvalStart(1)

JobGenerate ==
    /\ job_pc = "evaluate"
    /\ eval_pc[1] = "done"
    /\ job_pc' = "generate"
    /\ GenStart(1)

JobFinish ==
    /\ job_pc = "generate"
    /\ gen_pc[1] = "done"
    /\ job_pc' = "idle"
    /\ UNCHANGED <<storeVars, forecasts, genVars, evalVars>>

(* A week passes between two runs of a job that is run once a week. *)
JobNextWeek ==
    /\ job_pc = "idle"
    /\ gen_pc[1] = "done"
    /\ gen_today[1] = today
    /\ today + 7 <= MaxJobDay
    /\ today' = today + 7
    /\ UNCHANGED <<watchlist, decisions, forecasts, genVars, evalVars, job_pc>>

(* Midnight, between two runs of the generation phase. *)
SeqNextDay ==
    /\ gen_pc[1] \in {"idle", "done"}
    /\ today < MaxSeqDay
    /\ today' = today + 1
    /\ UNCHANGED <<watchlist, decisions, weeklyVars>>

(* What an iteration of the generation loop found and was given. *)
HistGenStart == gen_log' = {}

HistGenSymbol(g, response) ==
    LET symbol == INDICES_TO_PREDICT[gen_i[g]]
        found == HasForecast(forecasts \o gen_inserts[g], symbol,
                             week_start_of(gen_today[g]))
    IN  gen_log' = gen_log \cup
            {[symbol |-> symbol,
              found |-> found /\ response # Raises,
              inserted |-> gen_inserts'[g] # gen_inserts[g] /\ gen_inserts'[g] # <<>>]}

-----------------------------------------------------------------------------
(* Initial states. *)

NoStock == [symbol |-> <<>>, exchange |-> <<>>]

DailyIdle ==
    /\ agent_pc = [w \in Agents |-> "idle"]
    /\ agent_todo = [w \in Agents |-> {}]
    /\ agent_cur = [w \in Agents |-> NoStock]
    /\ req_pc = [q \in Requests |-> "idle"]
    /\ req_cur = [q \in Requests |-> NoStock]
    /\ agent_log = [w \in Agents |-> {}]
    /\ agent_start = [w \in Agents |-> [day |-> 0, table |-> <<>>]]
    /\ agent_ins = [w \in Agents |-> {}]

PureIdle ==
    /\ fmt_symbol = <<>>
    /\ fmt_exchange = <<>>
    /\ fmt_out = <<>>
    /\ fmt_calls = 0
    /\ raw_response = <<>>
    /\ parsed = NotParsed
    /\ wl_call = NoCall

PnlIdle ==
    /\ pnl_pc = [p \in PnlRuns |-> "idle"]
    /\ pnl_decisions = [p \in PnlRuns |-> <<>>]
    /\ pnl_prices = [p \in PnlRuns |-> <<>>]
    /\ pnl_i = [p \in PnlRuns |-> 1]
    /\ pnl_updates = [p \in PnlRuns |-> <<>>]
    /\ pnl_aborted = [p \in PnlRuns |-> FALSE]
    /\ pnl_raised = [p \in PnlRuns |-> {}]
    /\ scored_at = [id \in DOMAIN decisions |-> NoPrice]

WeeklyJobsIdle ==
    /\ gen_pc = [g \in GenRuns |-> "idle"]
    /\ gen_today = [g \in GenRuns |-> 0]
    /\ gen_i = [g \in GenRuns |-> 1]
    /\ gen_inserts = [g \in GenRuns |-> <<>>]
    /\ gen_ok = [g \in GenRuns |-> {}]
    /\ eval_pc = [e \in EvalRuns |-> "idle"]
    /\ eval_today = [e \in EvalRuns |-> 0]
    /\ eval_preds = [e \in EvalRuns |-> <<>>]
    /\ eval_i = [e \in EvalRuns |-> 1]
    /\ eval_updates = [e \in EvalRuns |-> <<>>]
    /\ graded_with = <<>>
    /\ job_pc = "idle"
    /\ gen_log = {}

WeeklyIdle ==
    /\ forecasts = <<>>
    /\ WeeklyJobsIdle

(* The daily job and the requests start on an empty decisions table. *)
Init ==
    /\ today = 0
    /\ watchlist \in { wl \in SUBSET WatchRows : Cardinality(wl) <= MaxWatchlist }
    /\ decisions = <<>>
    /\ DailyIdle
    /\ PureIdle
    /\ PnlIdle
    /\ WeeklyIdle

(* The reconciliation job starts on a table of rows the daily job and the  *)
(* requests have inserted: any symbol, any decision, a close price that    *)
(* may have rounded to 0, profit_loss NULL.                                *)
PnlDecisionPrices == { 3500000, 0 }
PnlRows ==
    { NewDecision(format_indian_symbol(<<"t", "c", "s">>, e), e,
                  [decision |-> d, confidence |-> "High", price_at_decision |-> c], 0) :
        e \in Exchanges, d \in {"BUY", "SELL", "HOLD"}, c \in PnlDecisionPrices }

InitPnl ==
    /\ today = 1
    /\ watchlist = {}
    /\ \E n \in 1..MaxPnlRows : decisions \in [1..n -> PnlRows]
    /\ DailyIdle
    /\ PureIdle
    /\ PnlIdle
    /\ WeeklyIdle

(* Runs of the reconciliation job, overlapping freely. *)
NextPnl ==
    \/ \E p \in PnlRuns : \E prices \in Fetched(SelectEligible(decisions, 1)) :
            PnlSelect(p, prices) /\ UNCHANGED <<dailyVars, histVars, weeklyVars, pureVars>>
    \/ \E p \in PnlRuns : \E f \in BOOLEAN :
            PnlRow(p, f) /\ UNCHANGED <<dailyVars, histVars, weeklyVars, pureVars>>
    \/ \E p \in PnlRuns : PnlCommit(p) /\ UNCHANGED <<dailyVars, histVars, weeklyVars, pureVars>>

SpecPnl == InitPnl /\ [][NextPnl]_vars

(* One run of the reconciliation job at a time; the one job slot is run 1. *)
NextPnlSeq ==
    \/ \E prices \in Fetched(SelectEligible(decisions, 1)) :
            PnlSelect(1, prices) /\ UNCHANGED <<dailyVars, histVars, weeklyVars, pureVars>>
    \/ \E f \in BOOLEAN : PnlRow(1, f) /\ UNCHANGED <<dailyVars, histVars, weeklyVars, pureVars>>
    \/ PnlCommit(1) /\ UNCHANGED <<dailyVars, histVars, weeklyVars, pureVars>>

SpecPnlSeq == InitPnl /\ [][NextPnlSeq]_vars

(* The weekly job starts on an empty table, on a Monday. *)
InitWeekly ==
    /\ today = 0
    /\ watchlist = {}
    /\ decisions = <<>>
    /\ DailyIdle
    /\ PureIdle
    /\ PnlIdle
    /\ WeeklyIdle

(* Runs of the generation phase of the weekly job, overlapping freely. *)
NextWeekly ==
    \/ \E g \in GenRuns : GenStart(g) /\ UNCHANGED <<dailyVars, histVars, pnlVars, jobVars, pureVars>>
    \/ \E g \in GenRuns : \E r \in ForecastResponses \cup {Raises} :
          GenSymbol(g, r) /\ UNCHANGED <<dailyVars, histVars, pnlVars, jobVars, pureVars>>
    \/ \E g \in GenRuns : GenCommit(g) /\ UNCHANGED <<dailyVars, histVars, pnlVars, jobVars, pureVars>>
    \/ WeeklyNextDay /\ UNCHANGED <<dailyVars, histVars, pnlVars, jobVars, pureVars>>

SpecWeekly == InitWeekly /\ [][NextWeekly]_vars

(* The evaluation phase starts in the week after the forecasts' week, on  *)
(* a table of rows that generation on day 0 has left.                      *)
EmptyResponse == [weekly_reasoning |-> "steady", daily_predictions |-> <<>>]

EvalRowsOfWeek ==
    { NewForecast(INDICES_TO_PREDICT[k], 0, response) :
        k \in DOMAIN INDICES_TO_PREDICT, response \in ForecastResponses \cup {EmptyResponse} }

InitEval ==
    /\ today \in {7, 9}
    /\ watchlist = {}
    /\ decisions = <<>>
    /\ DailyIdle
    /\ PureIdle
    /\ PnlIdle
    /\ WeeklyJobsIdle
    /\ \E n \in 1..MaxEvalRows : forecasts \in [1..n -> EvalRowsOfWeek]

WeeksOf(table) == UNION { Histories(table[id].week_start_date) : id \in DOMAIN table }

(* Runs of the evaluation phase, overlapping freely. *)
NextEval ==
    \/ \E e \in EvalRuns : EvalStart(e) /\ UNCHANGED <<dailyVars, histVars, pnlVars, jobVars, pureVars>>
    \/ \E e \in EvalRuns : \E actual_hist \in WeeksOf(forecasts) :
          EvalRow(e, actual_hist) /\ UNCHANGED <<dailyVars, histVars, pnlVars, jobVars, pureVars>>
    \/ \E e \in EvalRuns : EvalCommit(e) /\ UNCHANGED <<dailyVars, histVars, pnlVars, jobVars, pureVars>>

SpecEval == InitEval /\ [][NextEval]_vars

(* Runs of the generation phase one at a time, on any days. *)
NextWeeklySeq ==
    \/ GenStart(1) /\ HistGenStart /\ UNCHANGED <<dailyVars, histVars, pnlVars, job_pc, pureVars>>
    \/ \E response \in ForecastResponses \cup {Raises} :
          GenSymbol(1, response) /\ HistGenSymbol(1, response)
             /\ UNCHANGED <<dailyVars, histVars, pnlVars, job_pc, pureVars>>
    \/ GenCommit(1) /\ UNCHANGED <<dailyVars, histVars, pnlVars, jobVars, pureVars>>
    \/ SeqNextDay /\ UNCHANGED <<dailyVars, histVars, pnlVars, pureVars>>

SpecWeeklySeq == InitWeekly /\ [][NextWeeklySeq]_vars

(* The weekly job run once a week, always on the weekday it starts on. *)
InitWeeklyCycle ==
    /\ today \in 0..6
    /\ watchlist = {}
    /\ decisions = <<>>
    /\ DailyIdle
    /\ PureIdle
    /\ PnlIdle
    /\ WeeklyIdle

NextWeeklyCycle ==
    \/ JobEvaluate /\ UNCHANGED <<dailyVars, histVars, pnlVars, gen_log, pureVars>>
    \/ \E actual_hist \in WeeksOf(forecasts) :
          EvalRow(1, actual_hist) /\ UNCHANGED <<dailyVars, histVars, pnlVars, jobVars, pureVars>>
    \/ EvalCommit(1) /\ UNCHANGED <<dailyVars, histVars, pnlVars, jobVars, pureVars>>
    \/ JobGenerate /\ UNCHANGED <<dailyVars, histVars, pnlVars, gen_log, pureVars>>
    \/ \E response \in ForecastResponses \cup {Raises} :
          GenSymbol(1, response) /\ UNCHANGED <<dailyVars, histVars, pnlVars, jobVars, pureVars>>
    \/ GenCommit(1) /\ UNCHANGED <<dailyVars, histVars, pnlVars, jobVars, pureVars>>
    \/ JobFinish /\ UNCHANGED <<dailyVars, histVars, pnlVars, gen_log, pureVars>>
    \/ JobNextWeek /\ UNCHANGED <<dailyVars, histVars, pnlVars, gen_log, pureVars>>

SpecWeeklyCycle == InitWeeklyCycle /\ [][NextWeeklyCycle]_vars

(* A run of the daily job at a time, the oracle answering within its      *)
(* contract or outside it.                                                 *)
NextDailyOracle ==
    \/ AgentStart(1) /\ UNCHANGED <<histVars, pnlVars, weeklyVars, pureVars>>
    \/ \E stock \in agent_todo[1] :
          AgentCheck(1, stock) /\ UNCHANGED <<histVars, pnlVars, weeklyVars, pureVars>>
    \/ \E r \in AnalysisResults \cup OffContractResults : \E f \in BOOLEAN :
          AgentInsert(1, r, f) /\ UNCHANGED <<histVars, pnlVars, weeklyVars, pureVars>>
    \/ AgentFinish(1) /\ UNCHANGED <<histVars, pnlVars, weeklyVars, pureVars>>
    \/ NextDay /\ UNCHANGED <<histVars, pnlVars, weeklyVars, pureVars>>

SpecDailyOracle == Init /\ [][NextDailyOracle]_vars

(* The request-serving layer at work while the jobs run: on a table of    *)
(* one decision and one forecast of the week before, one run of each job   *)
(* in any interleaving with analyze_stock requests and the watchlist       *)
(* changes of user 1.                                                      *)
InitServe ==
    /\ today = 7
    /\ watchlist = {}
    /\ decisions \in [1..1 -> { r \in PnlRows : r.price_at_decision # 0 /\ r.exchange = NSE
                                              /\ r.decision = "BUY" }]
    /\ DailyIdle
    /\ PureIdle
    /\ PnlIdle
    /\ WeeklyJobsIdle
    /\ forecasts \in [1..1 -> { r \in EvalRowsOfWeek : r.symbol = INDICES_TO_PREDICT[1]
                                                     /\ Len(r.daily_predictions) = 5 }]

NextServe ==
    \/ \E q \in Requests : \E s \in RawSymbols : \E e \in Exchanges :
          ReqCheck(q, s, e) /\ UNCHANGED <<histVars, pnlVars, weeklyVars, pureVars>>
    \/ \E q \in Requests : \E r \in AnalysisResults : \E f \in BOOLEAN :
          ReqInsert(q, r, f) /\ UNCHANGED <<histVars, pnlVars, weeklyVars, pureVars>>
    \/ \E s \in RawSymbols : \E e \in Exchanges :
          add_to_watchlist(1, s, e) /\ UNCHANGED <<histVars, pnlVars, weeklyVars, pureVars>>
    \/ \E s \in RawSymbols : \E e \in Exchanges :
          remove_from_watchlist(1, s, e) /\ UNCHANGED <<histVars, pnlVars, weeklyVars, pureVars>>
    \/ \E prices \in Fetched(SelectEligible(decisions, 1)) :
          pnl_pc[1] = "idle" /\ PnlSelect(1, prices)
              /\ UNCHANGED <<dailyVars, histVars, weeklyVars, pureVars>>
    \/ \E f \in BOOLEAN : PnlRow(1, f) /\ UNCHANGED <<dailyVars, histVars, weeklyVars, pureVars>>
    \/ PnlCommit(1) /\ UNCHANGED <<dailyVars, histVars, weeklyVars, pureVars>>
    \/ eval_pc[1] = "idle" /\ EvalStart(1) /\ UNCHANGED <<dailyVars, histVars, pnlVars, jobVars, pureVars>>
    \/ \E actual_hist \in WeeksOf(forecasts) :
          EvalRow(1, actual_hist) /\ UNCHANGED <<dailyVars, histVars, pnlVars, jobVars, pureVars>>
    \/ EvalCommit(1) /\ UNCHANGED <<dailyVars, histVars, pnlVars, jobVars, pureVars>>

SpecServe == InitServe /\ [][NextServe]_vars

(* format_indian_symbol called on any symbol, then on its own result. *)
InitFormat ==
    /\ today = 0
    /\ watchlist = {}
    /\ decisions = <<>>
    /\ DailyIdle
    /\ PnlIdle
    /\ WeeklyIdle
    /\ fmt_symbol \in FormatSymbols
    /\ fmt_exchange = <<>>
    /\ fmt_out = <<>>
    /\ fmt_calls = 0
    /\ raw_response = <<>>
    /\ parsed = NotParsed
    /\ wl_call = NoCall

NextFormat ==
    \E exchange \in FormatExchanges :
        FormatCall(exchange)
            /\ UNCHANGED <<storeVars, dailyVars, histVars, pnlVars, weeklyVars, wl_call>>

SpecFormat == InitFormat /\ [][NextFormat]_vars

(* The parsing step of generate_new_weekly_predictions on any raw text. *)
InitParse ==
    /\ today = 0
    /\ watchlist = {}
    /\ decisions = <<>>
    /\ DailyIdle
    /\ PnlIdle
    /\ WeeklyIdle
    /\ fmt_symbol = <<>>
    /\ fmt_exchange = <<>>
    /\ fmt_out = <<>>
    /\ fmt_calls = 0
    /\ raw_response \in RawResponses
    /\ parsed = NotParsed
    /\ wl_call = NoCall

NextParse ==
    GenParse /\ UNCHANGED <<storeVars, dailyVars, histVars, pnlVars, weeklyVars, wl_call>>

SpecParse == InitParse /\ [][NextParse]_vars

(* The watchlist endpoints called with what users type, and the daily job  *)
(* reading the watchlist they leave.                                       *)
InitWatch ==
    /\ today = 0
    /\ watchlist = {}
    /\ decisions = <<>>
    /\ DailyIdle
    /\ PureIdle
    /\ PnlIdle
    /\ WeeklyIdle

NextWatch ==
    \/ \E u \in Users : \E s \in RawSymbols : \E e \in Exchanges :
          add_to_watchlist(u, s, e) /\ HistCall("add", u, s, e)
              /\ UNCHANGED <<histVars, pnlVars, weeklyVars, textVars>>
    \/ \E u \in Users : \E s \in RawSymbols : \E e \in Exchanges :
          remove_from_watchlist(u, s, e) /\ HistCall("remove", u, s, e)
              /\ UNCHANGED <<histVars, pnlVars, weeklyVars, textVars>>
    \/ AgentStart(1) /\ UNCHANGED <<histVars, pnlVars, weeklyVars, pureVars>>
    \/ \E stock \in agent_todo[1] :
          AgentCheck(1, stock) /\ UNCHANGED <<histVars, pnlVars, weeklyVars, pureVars>>
    \/ \E r \in AnalysisResults : \E f \in BOOLEAN :
          AgentInsert(1, r, f) /\ UNCHANGED <<histVars, pnlVars, weeklyVars, pureVars>>
    \/ AgentFinish(1) /\ UNCHANGED <<histVars, pnlVars, weeklyVars, pureVars>>

SpecWatch == InitWatch /\ [][NextWatch]_vars

(* Runs of the daily job and requests, overlapping freely. *)
NextDaily ==
    \/ \E w \in Agents : AgentStart(w) /\ UNCHANGED <<histVars, pnlVars, weeklyVars, pureVars>>
    \/ \E w \in Agents : \E stock \in agent_todo[w] :
          AgentCheck(w, stock) /\ UNCHANGED <<histVars, pnlVars, weeklyVars, pureVars>>
    \/ \E w \in Agents : \E r \in AnalysisResults : \E f \in BOOLEAN :
          AgentInsert(w, r, f) /\ UNCHANGED <<histVars, pnlVars, weeklyVars, pureVars>>
    \/ \E w \in Agents : AgentFinish(w) /\ UNCHANGED <<histVars, pnlVars, weeklyVars, pureVars>>
    \/ \E q \in Requests : \E s \in RawSymbols : \E e \in Exchanges :
          ReqCheck(q, s, e) /\ UNCHANGED <<histVars, pnlVars, weeklyVars, pureVars>>
    \/ \E q \in Requests : \E r \in AnalysisResults : \E f \in BOOLEAN :
          ReqInsert(q, r, f) /\ UNCHANGED <<histVars, pnlVars, weeklyVars, pureVars>>
    \/ NextDay /\ UNCHANGED <<histVars, pnlVars, weeklyVars, pureVars>>

SpecDaily == Init /\ [][NextDaily]_vars

(* One execution at a time: a run of the daily job or a request begins     *)
(* only when no other is under way.  The one job slot is agent 1.          *)
Quiet ==
    /\ \A w \in Agents : agent_pc[w] \in {"idle", "done"}
    /\ \A q \in Requests : req_pc[q] = "idle"

NextDailySeq ==
    \/ Quiet /\ AgentStart(1) /\ HistStart(1) /\ UNCHANGED <<pnlVars, weeklyVars, pureVars>>
    \/ \E stock \in agent_todo[1] :
          AgentCheck(1, stock) /\ HistCheck(1, stock) /\ UNCHANGED <<pnlVars, weeklyVars, pureVars>>
    \/ \E r \in AnalysisResults : \E f \in BOOLEAN :
          AgentInsert(1, r, f) /\ HistInsert(1, r, f) /\ UNCHANGED <<pnlVars, weeklyVars, pureVars>>
    \/ AgentFinish(1) /\ UNCHANGED <<histVars, pnlVars, weeklyVars, pureVars>>
    \/ Quiet /\ UNCHANGED <<histVars, pnlVars, weeklyVars, pureVars>>
         /\ \E q \in Requests : \E s \in RawSymbols : \E e \in Exchanges : ReqCheck(q, s, e)
    \/ UNCHANGED <<histVars, pnlVars, weeklyVars, pureVars>>
         /\ \E q \in Requests : \E r \in AnalysisResults : \E f \in BOOLEAN : ReqInsert(q, r, f)
    \/ NextDay /\ UNCHANGED <<histVars, pnlVars, weeklyVars, pureVars>>

SpecDailySeq == Init /\ [][NextDailySeq]_vars

-----------------------------------------------------------------------------
(* Properties of the daily job. *)

DecisionsUnique(table) ==
    \A i, j \in DOMAIN table :
        (table[i].symbol = table[j].symbol /\ table[i].day = table[j].day) => i = j

Saved(entry) == ~ entry.found /\ ~ Failed(entry)

C8_FailureDoesNotAbortRun ==
    \A w \in Agents :
        /\ agent_pc[w] = "done" =>
              { e.stock : e \in agent_log[w] } = unique_stocks(watchlist)
        /\ \A e \in agent_log[w] :
              Saved(e) => \E i \in agent_ins[w] :
                              /\ decisions[i].symbol = e.stock.symbol
                              /\ decisions[i].exchange = e.stock.exchange

(* A finished run in which an INSERT raised for one stock and a later      *)
(* stock was saved.                                                        *)
C8_Witness ==
    /\ agent_pc[1] = "done"
    /\ \E e1, e2 \in agent_log[1] :
          /\ e1.insert_fails
          /\ e2.after_failure
          /\ Saved(e2)

(* C22: the step in which the INSERT of a stock raises leaves the table as *)
(* it was, every row the run inserted for an earlier stock included, and   *)
(* those rows are in the table when the run ends.                          *)
C22_RollbackOfSingleInsert ==
    [][\A w \in Agents :
          /\ (\E e \in agent_log'[w] \ agent_log[w] : e.insert_fails) =>
                /\ decisions' = decisions
                /\ agent_ins'[w] = agent_ins[w]
          /\ \A i \in agent_ins[w] \cap agent_ins'[w] :
                i \in DOMAIN decisions' /\ decisions'[i] = decisions[i]
      ]_vars

(* A finished run that saved one stock and then had the INSERT of the next *)
(* raise: the saved row is in the table.                                   *)
C22_Witness ==
    /\ agent_pc[1] = "done"
    /\ \E e1, e2 \in agent_log[1] :
          /\ Saved(e1) /\ ~ e1.after_failure
          /\ e2.insert_fails
          /\ \E i \in agent_ins[1] : decisions[i].symbol = e1.stock.symbol

ForecastsUnique(table) ==
    \A i, j \in DOMAIN table :
        (table[i].symbol = table[j].symbol
            /\ table[i].week_start_date = table[j].week_start_date) => i = j

(* C2: the same uniqueness, of decisions per symbol and day and of weekly  *)
(* forecasts per symbol and week start, when executions overlap: no two    *)
(* rows of either table share their key.                                   *)
C2_UniqueUnderOverlap == DecisionsUnique(decisions) /\ ForecastsUnique(forecasts)

-----------------------------------------------------------------------------
(* Properties of the reconciliation job. *)

(* C4: a profit_loss that is not NULL is never written again, overlapping  *)
(* runs of update_profit_loss included.                                    *)
C4_ProfitLossWrittenOnce ==
    [][\A id \in DOMAIN decisions :
          decisions[id].profit_loss # NULL =>
              decisions'[id].profit_loss = decisions[id].profit_loss]_vars

(* C5: a row whose decision is not BUY or SELL never gets a profit_loss,   *)
(* whatever the prices and however often the job runs.                     *)
C5_HoldNeverScored ==
    \A id \in DOMAIN decisions :
        decisions[id].profit_loss # NULL => decisions[id].decision \in {"BUY", "SELL"}

(* A HOLD row left unscored beside a scored row of the same symbol and     *)
(* decision price, after a run has committed.                              *)
C5_Witness ==
    /\ \E p \in PnlRuns : pnl_pc[p] = "done"
    /\ \E i, j \in DOMAIN decisions :
          /\ decisions[i].decision = "HOLD"
          /\ decisions[i].profit_loss = NULL
          /\ decisions[j].symbol = decisions[i].symbol
          /\ decisions[j].price_at_decision = decisions[i].price_at_decision
          /\ decisions[j].profit_loss # NULL

(* C6: a scored row holds (current - decision price) / decision price *    *)
(* 100 for BUY and its negation for SELL, the fraction kept as numerator   *)
(* and denominator; from 3500 to 3605 that is +3.00 for BUY and -3.00 for  *)
(* SELL.                                                                   *)
C6_ProfitLossFormula ==
    \A id \in DOMAIN decisions :
        decisions[id].profit_loss # NULL =>
            LET d == decisions[id].price_at_decision
                c == scored_at[id]
                pl == decisions[id].profit_loss
            IN  /\ decisions[id].decision = "BUY" => pl = <<(c - d) * 100, d>>
                /\ decisions[id].decision = "SELL" => pl = <<0 - ((c - d) * 100), d>>
                /\ (d = 3500000 /\ c = 3605000) =>
                      pl[1] = (IF decisions[id].decision = "BUY" THEN 3 ELSE 0 - 3) * pl[2]

(* A BUY row and a SELL row, both scored from 3500 to 3605. *)
C6_Witness ==
    \E i, j \in DOMAIN decisions :
        /\ decisions[i].decision = "BUY"
        /\ decisions[j].decision = "SELL"
        /\ decisions[i].profit_loss = <<10500000, 3500000>>
        /\ decisions[j].profit_loss = <<0 - 10500000, 3500000>>
        /\ scored_at[i] = 3605000
        /\ scored_at[j] = 3605000

(* C7: after a run on its own, a selected row whose current price is less  *)
(* than 0.01 from its decision price still has a NULL profit_loss and is   *)
(* still selected by the next run; one whose price is 0.01 or more away,   *)
(* with a decision price that is not zero, in a run where no statement     *)
(* raised, has its profit_loss.                                            *)
C7_UnchangedPriceStaysUnscored ==
    pnl_pc[1] = "done" =>
        \A k \in DOMAIN pnl_decisions[1] :
            LET dec == pnl_decisions[1][k]
                c == CurrentPrice(pnl_prices[1], dec.symbol)
            IN  c # NoPrice =>
                  /\ Abs(c - dec.price_at_decision) < Tolerance =>
                        /\ decisions[dec.id].profit_loss = NULL
                        /\ \E n \in DOMAIN SelectEligible(decisions, 1) :
                              SelectEligible(decisions, 1)[n].id = dec.id
                  /\ (/\ Abs(c - dec.price_at_decision) >= Tolerance
                      /\ dec.price_at_decision # 0
                      /\ pnl_raised[1] = {}) =>
                        decisions[dec.id].profit_loss # NULL

(* A finished run with one row 0.009 from its decision price, left NULL,   *)
(* and another exactly 0.01 away, scored.                                  *)
C7_Witness ==
    /\ pnl_pc[1] = "done"
    /\ \E k1, k2 \in DOMAIN pnl_decisions[1] :
          LET d1 == pnl_decisions[1][k1]
              d2 == pnl_decisions[1][k2]
          IN  /\ CurrentPrice(pnl_prices[1], d1.symbol) - d1.price_at_decision = Tolerance - 1
              /\ decisions[d1.id].profit_loss = NULL
              /\ CurrentPrice(pnl_prices[1], d2.symbol) - d2.price_at_decision = Tolerance
              /\ decisions[d2.id].profit_loss # NULL

(* C23: after a run that fetched prices, a selected row whose symbol has   *)
(* no price has raised nothing, still has a NULL profit_loss and is        *)
(* selected by the next run; and in such a run, the server rejecting no    *)
(* statement, every other selected row whose price was fetched and is 0.01 *)
(* or more from a nonzero decision price has its profit_loss.              *)
C23_MissingPriceSkipsOnlyItsRow ==
    (pnl_pc[1] = "done" /\ pnl_prices[1] # NoData) =>
        LET priceless == { k \in DOMAIN pnl_decisions[1] :
                             CurrentPrice(pnl_prices[1], pnl_decisions[1][k].symbol) = NoPrice }
        IN  /\ \A k \in priceless :
                  LET dec == pnl_decisions[1][k]
                  IN  /\ dec.id \notin pnl_raised[1]
                      /\ decisions[dec.id].profit_loss = NULL
                      /\ \E n \in DOMAIN SelectEligible(decisions, 1) :
                            SelectEligible(decisions, 1)[n].id = dec.id
            /\ (priceless # {} /\ ~ pnl_aborted[1]) =>
                  \A k \in DOMAIN pnl_decisions[1] \ priceless :
                      LET dec == pnl_decisions[1][k]
                      IN  (/\ dec.price_at_decision # 0
                           /\ Abs(CurrentPrice(pnl_prices[1], dec.symbol)
                                    - dec.price_at_decision) >= Tolerance) =>
                              decisions[dec.id].profit_loss # NULL

(* A finished run that had no price for the symbol of one row, left NULL,  *)
(* and scored the row of another symbol.                                   *)
C23_Witness ==
    /\ pnl_pc[1] = "done"
    /\ \E k1, k2 \in DOMAIN pnl_decisions[1] :
          LET d1 == pnl_decisions[1][k1]
              d2 == pnl_decisions[1][k2]
          IN  /\ d1.symbol \in DOMAIN pnl_prices[1]
              /\ pnl_prices[1][d1.symbol] = NoPrice
              /\ decisions[d1.id].profit_loss = NULL
              /\ pnl_prices[1][d2.symbol] = 3605000
              /\ decisions[d2.id].profit_loss # NULL

(* C25: a run changes profit_loss only in the step of its commit; a run    *)
(* whose fetch returned no data changes none; and the commit makes every   *)
(* UPDATE the run has executed visible at once.                            *)
C25_AllOrNothing ==
    [][/\ (pnl_pc'[1] = "done" /\ pnl_prices'[1] = NoData) => decisions' = decisions
       /\ decisions' # decisions => (pnl_pc[1] = "loop" /\ pnl_pc'[1] = "done")
       /\ (pnl_pc[1] = "loop" /\ pnl_pc'[1] = "done") =>
             \A id \in DOMAIN pnl_updates[1] :
                 decisions'[id].profit_loss = pnl_updates[1][id].profit_loss
      ]_vars

(* C10: after a run, every selected row that did not itself raise, whose   *)
(* price was fetched and is 0.01 or more from a decision price that is not *)
(* zero, has its profit_loss, whatever happened to the other rows.         *)
C10_RowFailureIsIsolated ==
    pnl_pc[1] = "done" =>
        \A k \in DOMAIN pnl_decisions[1] :
            LET dec == pnl_decisions[1][k]
            IN  (dec.id \notin pnl_raised[1] /\ RowStep(dec, pnl_prices[1]) = "update") =>
                    decisions[dec.id].profit_loss # NULL

-----------------------------------------------------------------------------
(* Properties of the weekly job. *)

(* C9: after a run of generate_new_weekly_predictions, every symbol whose  *)
(* INSERT went through in the run has its row for the run's week in the    *)
(* table, whatever raised for the other symbols.                           *)
C9_FailureRollsBackOnlyItsSymbol ==
    \A g \in GenRuns :
        gen_pc[g] = "done" =>
            \A symbol \in gen_ok[g] :
                HasForecast(forecasts, symbol, week_start_of(gen_today[g]))

-----------------------------------------------------------------------------
(* Properties of the evaluation phase of the weekly job. *)

Evaluated(id) ==
    /\ id \in DOMAIN graded_with
    /\ forecasts[id].performance_summary # NULL

(* The loop of the evaluation over the row's predictions and the market    *)
(* data the row was graded with.                                           *)
GradedLoop(id) ==
    DayLoop(forecasts[id].daily_predictions, forecasts[id].week_start_date,
            graded_with[id], 1)

(* C11: the average error stored for a graded row is the sum of the        *)
(* per-day differences divided by the number of predicted days that have a *)
(* trading-day close, days without one left out of the count.              *)
C11_AverageOverTradingDays ==
    \A id \in DOMAIN forecasts :
        Evaluated(id) =>
            LET loop == GradedLoop(id)
                matched == Len(loop.lines)
            IN  matched > 0 =>
                    forecasts[id].performance_summary[1].avg_daily_error =
                        Round2(Frac(loop.total[1], loop.total[2] * matched))

(* C12: a predicted day whose predicted_price is 0 has no entry in the     *)
(* per-day breakdown of a graded row.                                      *)
C12_ZeroPredictionSkipped ==
    \A id \in DOMAIN forecasts :
        Evaluated(id) =>
            \A i \in DOMAIN forecasts[id].daily_predictions :
                forecasts[id].daily_predictions[i].predicted_price = 0 =>
                    ~ \E k \in DOMAIN forecasts[id].performance_summary[1].lines :
                          forecasts[id].performance_summary[1].lines[k].day =
                              forecasts[id].daily_predictions[i].day

(* C13: once actual_closing_price of a row is set, no run of the           *)
(* evaluation, overlapping ones included, changes the row's                *)
(* actual_closing_price or performance_summary.                            *)
C13_MarkedAtMostOnce ==
    [][\A id \in DOMAIN forecasts :
          forecasts[id].actual_closing_price # NULL =>
              /\ forecasts'[id].actual_closing_price = forecasts[id].actual_closing_price
              /\ forecasts'[id].performance_summary = forecasts[id].performance_summary]_vars

(* C26: in every row of weekly_index_predictions, actual_closing_price is  *)
(* NULL exactly when performance_summary is; a row whose evaluation raised *)
(* or was skipped for want of predictions has both NULL.                   *)
C26_OutcomeFieldsSetTogether ==
    \A id \in DOMAIN forecasts :
        (forecasts[id].actual_closing_price = NULL) <=> (forecasts[id].performance_summary = NULL)

(* A finished run that graded one row and skipped another, which has no   *)
(* predictions: the first with both fields set, the second with neither.   *)
C26_Witness ==
    /\ eval_pc[1] = "done"
    /\ \E k1, k2 \in DOMAIN eval_preds[1] :
          LET id1 == eval_preds[1][k1].id
              id2 == eval_preds[1][k2].id
          IN  /\ forecasts[id1].actual_closing_price # NULL
              /\ forecasts[id1].performance_summary # NULL
              /\ forecasts[id2].actual_closing_price = NULL
              /\ forecasts[id2].performance_summary = NULL
              /\ forecasts[id2].daily_predictions = <<>>

-----------------------------------------------------------------------------
(* Properties of the generation phase of the weekly job. *)

C15_FiveDaysMondayToFriday ==
    \A id \in DOMAIN forecasts :
        /\ Len(forecasts[id].daily_predictions) = 5
        /\ \A i \in 1..5 : forecasts[id].daily_predictions[i].day = DayNames[i]

(* C18: every row's week_start_date is the Monday of the calendar week     *)
(* after the one of its prediction_date, and its week_end_date the Friday  *)
(* four days later.                                                        *)
C18_WeekStartIsNextMonday ==
    \A id \in DOMAIN forecasts :
        /\ forecasts[id].week_start_date =
              forecasts[id].prediction_date - weekday(forecasts[id].prediction_date) + 7
        /\ forecasts[id].week_end_date = forecasts[id].week_start_date + 4

(* C17: when the job is run once a week, the evaluation of a run selects   *)
(* every row the generation of the run a week before has left.             *)
C17_EvaluatedByNextRun ==
    (job_pc = "evaluate" /\ gen_pc[1] = "done" /\ eval_today[1] = gen_today[1] + 7) =>
        \A id \in DOMAIN forecasts :
            forecasts[id].prediction_date = gen_today[1] =>
                \E k \in DOMAIN eval_preds[1] : eval_preds[1][k].id = id

-----------------------------------------------------------------------------
(* Properties of what the jobs store. *)

(* C16: every row of decisions has a decision among BUY, SELL and HOLD and *)
(* a confidence among Low, Medium and High, whatever the oracle answered.  *)
C16_DecisionAndConfidenceValid ==
    \A id \in DOMAIN decisions :
        /\ decisions[id].decision \in {"BUY", "SELL", "HOLD"}
        /\ decisions[id].confidence \in {"Low", "Medium", "High"}

(* C19: a run of update_profit_loss that fetched, for a row it selected, a *)
(* current price 0.01 or more from the row's decision price, and in which  *)
(* the server rejected no statement, leaves the row with its profit_loss.  *)
C19_MovedPriceIsScored ==
    (pnl_pc[1] = "done" /\ ~ pnl_aborted[1]) =>
        \A k \in DOMAIN pnl_decisions[1] :
            LET dec == pnl_decisions[1][k]
                current_price == CurrentPrice(pnl_prices[1], dec.symbol)
            IN  (/\ current_price # NoPrice
                 /\ Abs(current_price - dec.price_at_decision) >= Tolerance) =>
                    decisions[dec.id].profit_loss # NULL

-----------------------------------------------------------------------------
(* Properties of the request-serving layer. *)

(* The columns of a decisions row that are not its outcome. *)
Recommendation(row) == [row EXCEPT !.profit_loss = NULL]

(* The columns of a forecast row that are its outcome. *)
Outcome(row) == <<row.actual_closing_price, row.performance_summary>>

(* C20: no step deletes a row of decisions or changes anything of it but   *)
(* profit_loss; a new row has profit_loss NULL; profit_loss of an existing *)
(* row changes only in the commit of update_profit_loss, and the outcome   *)
(* columns of a forecast only in the commit of                             *)
(* evaluate_last_week_predictions: never in a step of analyze_stock,       *)
(* add_to_watchlist or remove_from_watchlist.                              *)
C20_OnlyJobsWriteOutcomes ==
    [][/\ Len(decisions') >= Len(decisions)
       /\ \A id \in DOMAIN decisions :
             Recommendation(decisions'[id]) = Recommendation(decisions[id])
       /\ \A id \in DOMAIN decisions' \ DOMAIN decisions :
             decisions'[id].profit_loss = NULL
       /\ (\E id \in DOMAIN decisions :
               decisions'[id].profit_loss # decisions[id].profit_loss) =>
             /\ \E p \in PnlRuns : pnl_pc[p] = "loop" /\ pnl_pc'[p] = "done"
             /\ req_pc' = req_pc /\ watchlist' = watchlist
       /\ DOMAIN forecasts' = DOMAIN forecasts
       /\ (\E id \in DOMAIN forecasts :
               Outcome(forecasts'[id]) # Outcome(forecasts[id])) =>
             /\ \E e \in EvalRuns : eval_pc[e] = "loop" /\ eval_pc'[e] = "done"
             /\ req_pc' = req_pc /\ watchlist' = watchlist
      ]_vars

(* A scored decision, an evaluated forecast, a decision a request has      *)
(* inserted since, a watchlist that has been changed and a request under   *)
(* way.                                                                    *)
C20_Witness ==
    /\ \E id \in DOMAIN decisions : decisions[id].profit_loss # NULL
    /\ \E id \in DOMAIN forecasts : forecasts[id].actual_closing_price # NULL
    /\ \E id \in DOMAIN decisions : decisions[id].day = 7 /\ decisions[id].profit_loss = NULL
    /\ watchlist # {}
    /\ req_pc[1] = "analyze"

-----------------------------------------------------------------------------
(* Properties of the pure functions. *)

(* C21: format_indian_symbol returns a symbol that starts with ^ as it is; *)
(* to a symbol without a suffix it appends .NS when the exchange is NSE    *)
(* and .BO otherwise; a symbol that ends in .NS or .BO keeps that suffix   *)
(* and gets no other; and a result, formatted again with any exchange, is  *)
(* returned as it is.  Letter case is compared as the code compares it.    *)
C21_FormatIsIdempotent ==
    fmt_calls >= 1 =>
        LET upper == Upper(fmt_symbol)
            suffixed == EndsWith(upper, DOT_NS) \/ EndsWith(upper, DOT_BO)
        IN  /\ StartsWith(fmt_symbol, <<"^">>) => fmt_out = fmt_symbol
            /\ (~ StartsWith(fmt_symbol, <<"^">>) /\ ~ suffixed) =>
                  /\ Len(fmt_out) = Len(fmt_symbol) + 3
                  /\ SubSeq(fmt_out, 1, Len(fmt_symbol)) = upper
                  /\ Upper(fmt_exchange) = NSE => EndsWith(fmt_out, DOT_NS)
                  /\ Upper(fmt_exchange) # NSE => EndsWith(fmt_out, DOT_BO)
            /\ (~ StartsWith(fmt_symbol, <<"^">>) /\ suffixed) =>
                  /\ Len(fmt_out) = Len(fmt_symbol)
                  /\ EndsWith(upper, DOT_NS) => EndsWith(fmt_out, DOT_NS)
                  /\ EndsWith(upper, DOT_BO) => EndsWith(fmt_out, DOT_BO)
            /\ fmt_calls >= 2 => fmt_out = fmt_symbol

(* A symbol formatted for BSE and then formatted again for NSE. *)
C21_Witness ==
    /\ fmt_calls = 2
    /\ fmt_exchange = NSE
    /\ fmt_out = <<"T", "C", "S", ".", "B", "O">>

(* The first balanced object of a text: from its first "{" to the brace    *)
(* that closes it; NoMatch when there is none.                             *)
FirstBalanced(text) ==
    LET opens == { i \in DOMAIN text : text[i] = "{" }
    IN  IF opens = {} THEN NoMatch
        ELSE LET first == CHOOSE i \in opens : \A j \in opens : i <= j
                 ends == { i \in first..Len(text) :
                             Depth(text, i) = Depth(text, first - 1) }
             IN  IF ends = {} THEN NoMatch
                 ELSE SubSeq(text, first, CHOOSE i \in ends : \A j \in ends : i <= j)

(* C24: when the raw text holds a balanced JSON object at its first "{",   *)
(* whatever follows it, the parsing step gives exactly that object, and it *)
(* raises only on a text without one.                                      *)
C24_FirstBalancedObjectParsed ==
    parsed # NotParsed =>
        IF IsJSONObject(FirstBalanced(raw_response))
        THEN parsed = [status |-> "loaded", object |-> FirstBalanced(raw_response)]
        ELSE parsed.status = "raises"

-----------------------------------------------------------------------------
(* Properties of the weekly job over the weeks. *)

(* C27: a row of week_start_date W changes only in the commit of an        *)
(* evaluation run whose today is in the seven days from W + 7; once that   *)
(* week is over and no run begun in it is still under way, a row whose     *)
(* outcome is NULL keeps it NULL.                                          *)
C27_EvaluatedInItsWeekOnly ==
    [][\A id \in DOMAIN forecasts :
          LET W == forecasts[id].week_start_date
          IN  /\ id \in DOMAIN forecasts'
              /\ forecasts'[id] # forecasts[id] =>
                    \E e \in EvalRuns : /\ eval_pc[e] = "loop" /\ eval_pc'[e] = "done"
                                        /\ eval_today[e] \in (W + 7)..(W + 13)
              /\ (/\ today >= W + 14
                  /\ \A e \in EvalRuns : eval_pc[e] = "loop" => eval_today[e] >= W + 14
                  /\ Outcome(forecasts[id]) = <<NULL, NULL>>) =>
                    Outcome(forecasts'[id]) = <<NULL, NULL>>
      ]_vars

(* The run of day 14 has graded a row of the week of day 7 and left alone  *)
(* a row of the week of day 0 that the run of day 7 did not grade.         *)
C27_Witness ==
    /\ eval_pc[1] = "done"
    /\ eval_today[1] = 14
    /\ \E id1, id2 \in DOMAIN forecasts :
          /\ forecasts[id1].week_start_date = 0
          /\ Outcome(forecasts[id1]) = <<NULL, NULL>>
          /\ forecasts[id2].week_start_date = 7
          /\ forecasts[id2].actual_closing_price # NULL

-----------------------------------------------------------------------------
(* Properties of the watchlist endpoints. *)

(* C28: when a call of add_to_watchlist is followed by a call of           *)
(* remove_from_watchlist with the same user, symbol and exchange, the      *)
(* user's watchlist holds no entry for that symbol and exchange, and a run *)
(* of the daily job started then does not have it among its stocks on that *)
(* user's account.                                                         *)
C28_AddThenRemove ==
    [][(/\ wl_call.op = "add"
        /\ wl_call' = [wl_call EXCEPT !.op = "remove"]) =>
            ~ \E r \in watchlist' :
                /\ r.user_id = wl_call.user_id
                /\ r.symbol = format_indian_symbol(wl_call.symbol, wl_call.exchange)
                /\ r.exchange = wl_call.exchange
      ]_vars

=============================================================================
